---- MODULE Spec2Model ----
(***************************************************************************)
(* getMemStats of memstats_linux.go: open /proc/meminfo, scan it line by   *)
(* line, store the recognized fields in a fresh map, compute the three     *)
(* derived keys, close the file and return the map.                        *)
(*                                                                         *)
(* Text is a sequence of one-character strings.  A uint64 is a tuple of    *)
(* four 16-bit limbs, least significant first, so that the arithmetic      *)
(* keeps its 64-bit width.                                                 *)
(***************************************************************************)
EXTENDS Integers, Sequences, FiniteSets, TLC

\* ------------------------------------------------------------------ bounds
\* lines of the resource, with one caller
MaxLines == 3
\* successive calls of one caller
MaxCalls == 2
\* concurrent callers
NumProcs == 2
\* lines of the resource, with concurrent callers
MaxConcLines == 2

Procs == 1..NumProcs

\* ------------------------------------------------------------------ uint64
LimbBase == 65536

U64(n) == <<n % LimbBase, n \div LimbBase, 0, 0>>

Zero == U64(0)

MaxUint64 == <<LimbBase - 1, LimbBase - 1, LimbBase - 1, LimbBase - 1>>

\* a + b on uint64: the carry out of the top limb is dropped
Add(a, b) ==
    LET s1 == a[1] + b[1]
        s2 == a[2] + b[2] + (s1 \div LimbBase)
        s3 == a[3] + b[3] + (s2 \div LimbBase)
        s4 == a[4] + b[4] + (s3 \div LimbBase)
    IN  <<s1 % LimbBase, s2 % LimbBase, s3 % LimbBase, s4 % LimbBase>>

\* a - b on uint64: the borrow out of the top limb is dropped
Sub(a, b) ==
    LET d1 == LimbBase + a[1] - b[1]
        d2 == LimbBase + a[2] - b[2] - (1 - (d1 \div LimbBase))
        d3 == LimbBase + a[3] - b[3] - (1 - (d2 \div LimbBase))
        d4 == LimbBase + a[4] - b[4] - (1 - (d3 \div LimbBase))
    IN  <<d1 % LimbBase, d2 % LimbBase, d3 % LimbBase, d4 % LimbBase>>

\* ------------------------------------------------------------------ text
DigitChars == <<"0", "1", "2", "3", "4", "5", "6", "7", "8", "9">>

\* \d of the pattern
Digit == {DigitChars[i] : i \in 1..10}

\* \s of the pattern
Space == {" ", "\t", "\n", "\f", "\r"}

DigitVal(c) == (CHOOSE i \in 1..10 : DigitChars[i] = c) - 1

IsPrefix(s, t) == Len(s) <= Len(t) /\ \A i \in 1..Len(s) : t[i] = s[i]

\* the first position >= i of line whose character is outside set (Len+1 if none)
RECURSIVE SkipWhile(_, _, _)
SkipWhile(line, i, set) ==
    IF i <= Len(line) /\ line[i] \in set THEN SkipWhile(line, i + 1, set) ELSE i

\* strconv.ParseUint(s, 10, 64): the value, or the maximum value and a range
\* error once the digits denote more than 2^64 - 1; a syntax error for no
\* digits or a character that is no digit
RECURSIVE ParseFrom(_, _, _)
ParseFrom(s, i, acc) ==
    IF i > Len(s) THEN [val |-> acc, err |-> "nil"]
    ELSE IF s[i] \notin Digit THEN [val |-> Zero, err |-> "syntax"]
    ELSE LET t1 == acc[1] * 10 + DigitVal(s[i])
             t2 == acc[2] * 10 + (t1 \div LimbBase)
             t3 == acc[3] * 10 + (t2 \div LimbBase)
             t4 == acc[4] * 10 + (t3 \div LimbBase)
         IN  IF t4 \div LimbBase > 0
             THEN [val |-> MaxUint64, err |-> "range"]
             ELSE ParseFrom(s, i + 1,
                      <<t1 % LimbBase, t2 % LimbBase, t3 % LimbBase, t4 % LimbBase>>)

ParseUint(s) ==
    IF Len(s) = 0 THEN [val |-> Zero, err |-> "syntax"] ELSE ParseFrom(s, 1, Zero)

\* ------------------------------------------------------------------ pattern
\* the alternatives of the first group of re, in the order of the pattern
Alternatives ==
    <<  <<"M","e","m">> \o <<"T","o","t","a","l">>,
        <<"M","e","m">> \o <<"F","r","e","e">>,
        <<"S","w","a","p">> \o <<"T","o","t","a","l">>,
        <<"S","w","a","p">> \o <<"F","r","e","e">>,
        <<"B","u","f","f","e","r","s">>,
        <<"C","a","c","h","e","d">>,
        <<"S","w","a","p","C","a","c","h","e","d">>,
        <<"A","c","t","i","v","e">>,
        <<"I","n","a","c","t","i","v","e">>,
        <<"D","i","r","t","y">>,
        <<"W","r","i","t","e","b","a","c","k">>,
        <<"M","a","p","p","e","d">>,
        <<"S","l","a","b">>,
        <<"C","o","m","m","i","t">> \o <<"L","i","m","i","t">>,
        <<"C","o","m","m","i","t">> \o <<"t","e","d","_","A","S">>  >>

NoMatch == [matched |-> FALSE, key |-> <<>>, digits |-> <<>>]

\* the pattern tried with one alternative: ^name:\s*(\d+)
MatchAlternative(name, line) ==
    IF ~IsPrefix(name \o <<":">>, line) THEN NoMatch
    ELSE LET j == SkipWhile(line, Len(name) + 2, Space)
             k == SkipWhile(line, j, Digit)
         IN  IF k = j THEN NoMatch
             ELSE [matched |-> TRUE, key |-> name, digits |-> SubSeq(line, j, k - 1)]

\* a pattern bug: any run of characters before the colon is taken as the name
FindAnyField(line) ==
    LET c == SkipWhile(line, 1, {line[i] : i \in 1..Len(line)} \ {":"})
    IN  IF c = 1 \/ c > Len(line) THEN NoMatch
        ELSE MatchAlternative(SubSeq(line, 1, c - 1), line)

\* the alternatives from the i-th on, tried in order
RECURSIVE MatchFrom(_, _)
MatchFrom(i, line) ==
    IF i > Len(Alternatives) THEN NoMatch
    ELSE LET m == MatchAlternative(Alternatives[i], line)
         IN  IF m.matched THEN m ELSE MatchFrom(i + 1, line)

\* re.FindStringSubmatch(line): the first alternative, in order, with which
\* the whole pattern matches at the start of the line
FindStringSubmatch(line) == MatchFrom(1, line)

\* ------------------------------------------------------------------ MemStats
\* a value of type MemStats: the nil map, or a map from key to uint64
NilMap == [isNil |-> TRUE, kv |-> <<>>]

EmptyMap == [isNil |-> FALSE, kv |-> <<>>]

\* m[k] read: the zero value when k is no key of m; the map is not changed
Get(m, k) == IF k \in DOMAIN m THEN m[k] ELSE Zero

\* m[k] = v
Put(m, k, v) == [x \in (DOMAIN m) \cup {k} |-> IF x = k THEN v ELSE m[x]]

MemTotal == <<"M","e","m","T","o","t","a","l">>
MemFree == <<"M","e","m","F","r","e","e">>
SwapTotal == <<"S","w","a","p","T","o","t","a","l">>
SwapFree == <<"S","w","a","p","F","r","e","e">>
Buffers == <<"B","u","f","f","e","r","s">>
Cached == <<"C","a","c","h","e","d">>
MemUsed == <<"M","e","m","U","s","e","d">>
SwapUsed == <<"S","w","a","p","U","s","e","d">>
RealFree == <<"R","e","a","l","F","r","e","e">>

\* a loop-body bug: the value ParseUint returns is stored although err is set
LoopBodyStoresOnError(m, line) ==
    LET stat == FindStringSubmatch(line)
    IN  IF ~stat.matched THEN m ELSE Put(m, stat.key, ParseUint(stat.digits).val)

\* a loop-body bug: a key that is already set is not overwritten
LoopBodyKeepsFirst(m, line) ==
    LET stat == FindStringSubmatch(line)
    IN  IF ~stat.matched THEN m
        ELSE LET r == ParseUint(stat.digits)
             IN  IF r.err # "nil" \/ stat.key \in DOMAIN m THEN m
                 ELSE Put(m, stat.key, r.val)

\* the body of the scan loop on one line: the map after it
LoopBody(m, line) ==
    LET stat == FindStringSubmatch(line)
    IN  IF ~stat.matched THEN m
        ELSE LET r == ParseUint(stat.digits)
             IN  IF r.err # "nil" THEN m ELSE Put(m, stat.key, r.val)

\* whether the loop body prints a diagnostic for the line
Prints(line) ==
    LET stat == FindStringSubmatch(line)
    IN  stat.matched /\ ParseUint(stat.digits).err # "nil"

\* a bug: a derived key is computed only when its inputs are keys of the map
DeriveKeysWhenPresent(m) ==
    LET m1 == IF {MemTotal, MemFree} \subseteq DOMAIN m
              THEN Put(m, MemUsed, Sub(m[MemTotal], m[MemFree])) ELSE m
        m2 == IF {SwapTotal, SwapFree} \subseteq DOMAIN m
              THEN Put(m1, SwapUsed, Sub(m[SwapTotal], m[SwapFree])) ELSE m1
    IN  IF {MemFree, Buffers, Cached} \subseteq DOMAIN m
        THEN Put(m2, RealFree, Add(Add(m[MemFree], m[Buffers]), m[Cached])) ELSE m2

\* a bug: the operands of the subtractions are exchanged
DeriveKeysSwapped(m) ==
    LET m1 == Put(m, MemUsed, Sub(Get(m, MemFree), Get(m, MemTotal)))
        m2 == Put(m1, SwapUsed, Sub(Get(m1, SwapFree), Get(m1, SwapTotal)))
    IN  Put(m2, RealFree, Add(Add(Get(m2, MemFree), Get(m2, Buffers)), Get(m2, Cached)))

\* the three assignments after the loop
DeriveKeys(m) ==
    LET m1 == Put(m, MemUsed, Sub(Get(m, MemTotal), Get(m, MemFree)))
        m2 == Put(m1, SwapUsed, Sub(Get(m1, SwapTotal), Get(m1, SwapFree)))
    IN  Put(m2, RealFree, Add(Add(Get(m2, MemFree), Get(m2, Buffers)), Get(m2, Cached)))

\* ------------------------------------------------------------------ resource
\* contents a line of /proc/meminfo can have
LineSamples ==
    <<  <<"M","e","m","T","o","t","a","l",":"," ","1","0","0","0"," ","k","B">>,
        <<"M","e","m","T","o","t","a","l",":","5">>,
        <<"M","e","m","F","r","e","e",":","\t","2","0","0"," ","k","B">>,
        <<"B","u","f","f","e","r","s",":"," ","5","0"," ","k","B">>,
        <<"C","a","c","h","e","d",":"," ","1","8","4","4","6","7","4","4","0","7","3","7","0","9","5","5","1","6","1","5"," ","k","B">>,
        <<"M","e","m","T","o","t","a","l",":"," ","1","8","4","4","6","7","4","4","0","7","3","7","0","9","5","5","1","6","1","6"," ","k","B">>,
        <<"M","e","m","T","o","t","a","l",":"," ","a","b","c"," ","k","B">>,
        <<"S","w","a","p","T","o","t","a","l",":"," ","5","0","0"," ","k","B">>,
        <<"S","w","a","p","F","r","e","e",":"," ","1","0","0"," ","k","B">>,
        <<"I","n","a","c","t","i","v","e",":"," ","3"," ","k","B">>,
        <<"A","c","t","i","v","e","(","a","n","o","n",")",":"," ","7"," ","k","B">>,
        <<"V","m","a","l","l","o","c","T","o","t","a","l",":"," ","9","9","9"," ","k","B">>,
        <<" ","M","e","m","T","o","t","a","l",":"," ","9"," ","k","B">>  >>

AllSamples == DOMAIN LineSamples

\* the samples of the successive calls: MemTotal: 1000 kB, MemFree: 200 kB and
\* the MemTotal line whose number is out of range
SmallSamples == {1, 3, 6}

\* the samples of the concurrent calls: MemTotal: 1000 kB and MemFree: 200 kB
ConcSamples == {1, 3}

LineText(id) == LineSamples[id]

SeqsUpTo(S, n) == UNION {[1..k -> S] : k \in 0..n}

\* ------------------------------------------------------------------ state
VARIABLES
    resource,   \* the lines of /proc/meminfo, as sample ids; never changed
    budget,     \* budget[p]: how many calls caller p makes
    calls,      \* calls[p]: how many calls p has started
    pc,         \* pc[p]: "idle" (before a call, after a return), "scan", "derive", "return"
    fileOpen,   \* fileOpen[p]: the file of p's call is open
    off,        \* off[p]: the lines read so far from p's file
    defers,     \* defers[p]: the deferred calls of p's call
    memStats,   \* memStats[p]: the map of p's call
    scanErr,    \* scanErr[p]: scanner.Err() is non-nil
    err,        \* err[p]: the error of os.Open in p's call
    opened,     \* opened[p]: successful os.Open calls of p
    closed,     \* closed[p]: file.Close calls of p
    diag,       \* lines printed by fmt.Println
    ret,        \* ret[p]: what p's last call returned
    prevRet     \* prevRet[p]: what p's call before the last returned

vars == <<resource, budget, calls, pc, fileOpen, off, defers, memStats, scanErr,
          err, opened, closed, diag, ret, prevRet>>

NoRet == [memStats |-> NilMap, err |-> "none"]

InitCalls ==
    /\ calls = [p \in Procs |-> 0]
    /\ pc = [p \in Procs |-> "idle"]
    /\ fileOpen = [p \in Procs |-> FALSE]
    /\ off = [p \in Procs |-> 0]
    /\ defers = [p \in Procs |-> <<>>]
    /\ memStats = [p \in Procs |-> NilMap]
    /\ scanErr = [p \in Procs |-> FALSE]
    /\ err = [p \in Procs |-> "nil"]
    /\ opened = [p \in Procs |-> 0]
    /\ closed = [p \in Procs |-> 0]
    /\ diag = 0
    /\ ret = [p \in Procs |-> NoRet]
    /\ prevRet = [p \in Procs |-> NoRet]

\* one caller, one call, any resource over all samples
Init ==
    /\ resource \in SeqsUpTo(AllSamples, MaxLines)
    /\ budget = [p \in Procs |-> IF p = 1 THEN 1 ELSE 0]
    /\ InitCalls

\* one caller, MaxCalls successive calls
InitSeq ==
    /\ resource \in SeqsUpTo(SmallSamples, MaxLines)
    /\ budget = [p \in Procs |-> IF p = 1 THEN MaxCalls ELSE 0]
    /\ InitCalls

\* NumProcs callers, one call each, interleaved
InitConc ==
    /\ resource \in SeqsUpTo(ConcSamples, MaxConcLines)
    /\ budget = [p \in Procs |-> 1]
    /\ InitCalls

\* ------------------------------------------------------------------ actions
\* a bug: one file shared by all calls, so every position follows the reader's
ConsumeShared(o, p) == [q \in DOMAIN o |-> o[p] + 1]

\* the position of every file after p's scanner has read one line
Consume(o, p) == [o EXCEPT ![p] = @ + 1]

\* a bug: the error of os.Open is not checked and the call goes on with a
\* fresh map and a file that cannot be read
OpenFailIgnored(p) ==
    /\ pc[p] = "idle" /\ calls[p] < budget[p]
    /\ calls' = [calls EXCEPT ![p] = @ + 1]
    /\ prevRet' = [prevRet EXCEPT ![p] = ret[p]]
    /\ memStats' = [memStats EXCEPT ![p] = EmptyMap]
    /\ off' = [off EXCEPT ![p] = 0]
    /\ defers' = [defers EXCEPT ![p] = <<"file.Close">>]
    /\ scanErr' = [scanErr EXCEPT ![p] = TRUE]
    /\ err' = [err EXCEPT ![p] = "open"]
    /\ ret' = [ret EXCEPT ![p] = NoRet]
    /\ pc' = [pc EXCEPT ![p] = "derive"]
    /\ UNCHANGED <<resource, budget, fileOpen, opened, closed, diag>>

\* a bug: file.Close is not deferred
OpenOkNoDefer(p) ==
    /\ pc[p] = "idle" /\ calls[p] < budget[p]
    /\ calls' = [calls EXCEPT ![p] = @ + 1]
    /\ prevRet' = [prevRet EXCEPT ![p] = ret[p]]
    /\ fileOpen' = [fileOpen EXCEPT ![p] = TRUE]
    /\ opened' = [opened EXCEPT ![p] = @ + 1]
    /\ off' = [off EXCEPT ![p] = 0]
    /\ defers' = [defers EXCEPT ![p] = <<>>]
    /\ memStats' = [memStats EXCEPT ![p] = EmptyMap]
    /\ scanErr' = [scanErr EXCEPT ![p] = FALSE]
    /\ err' = [err EXCEPT ![p] = "nil"]
    /\ ret' = [ret EXCEPT ![p] = NoRet]
    /\ pc' = [pc EXCEPT ![p] = "scan"]
    /\ UNCHANGED <<resource, budget, closed, diag>>

\* os.Open fails: return nil, err
OpenFail(p) ==
    /\ pc[p] = "idle" /\ calls[p] < budget[p]
    /\ calls' = [calls EXCEPT ![p] = @ + 1]
    /\ prevRet' = [prevRet EXCEPT ![p] = ret[p]]
    /\ memStats' = [memStats EXCEPT ![p] = NilMap]
    /\ off' = [off EXCEPT ![p] = 0]
    /\ defers' = [defers EXCEPT ![p] = <<>>]
    /\ scanErr' = [scanErr EXCEPT ![p] = FALSE]
    /\ err' = [err EXCEPT ![p] = "open"]
    /\ ret' = [ret EXCEPT ![p] = [memStats |-> NilMap, err |-> "open"]]
    /\ UNCHANGED <<resource, budget, pc, fileOpen, opened, closed, diag>>

\* os.Open succeeds: defer file.Close(), memStats = MemStats{}, the scanner
OpenOk(p) ==
    /\ pc[p] = "idle" /\ calls[p] < budget[p]
    /\ calls' = [calls EXCEPT ![p] = @ + 1]
    /\ prevRet' = [prevRet EXCEPT ![p] = ret[p]]
    /\ fileOpen' = [fileOpen EXCEPT ![p] = TRUE]
    /\ opened' = [opened EXCEPT ![p] = @ + 1]
    /\ off' = [off EXCEPT ![p] = 0]
    /\ defers' = [defers EXCEPT ![p] = <<"file.Close">>]
    /\ memStats' = [memStats EXCEPT ![p] = EmptyMap]
    /\ scanErr' = [scanErr EXCEPT ![p] = FALSE]
    /\ err' = [err EXCEPT ![p] = "nil"]
    /\ ret' = [ret EXCEPT ![p] = NoRet]
    /\ pc' = [pc EXCEPT ![p] = "scan"]
    /\ UNCHANGED <<resource, budget, closed, diag>>

\* scanner.Scan() delivers the next line and the loop body runs on it
ScanLine(p) ==
    /\ pc[p] = "scan" /\ off[p] < Len(resource)
    /\ LET line == LineText(resource[off[p] + 1])
       IN  /\ memStats' = [memStats EXCEPT ![p].kv = LoopBody(@, line)]
           /\ diag' = IF Prints(line) THEN diag + 1 ELSE diag
    /\ off' = Consume(off, p)
    /\ UNCHANGED <<resource, budget, calls, pc, fileOpen, defers, scanErr,
                   err, opened, closed, ret, prevRet>>

\* scanner.Scan() returns false at the end of the file
ScanEnd(p) ==
    /\ pc[p] = "scan" /\ off[p] >= Len(resource)
    /\ pc' = [pc EXCEPT ![p] = "derive"]
    /\ UNCHANGED <<resource, budget, calls, fileOpen, off, defers, memStats,
                   scanErr, err, opened, closed, diag, ret, prevRet>>

\* scanner.Scan() returns false before the end of the file: the read of the
\* next line failed, or the line is longer than the scanner's buffer.  The loop
\* ends as it does at the end of the file; scanner.Err() is never looked at.
ScanError(p) ==
    /\ pc[p] = "scan" /\ off[p] < Len(resource)
    /\ scanErr' = [scanErr EXCEPT ![p] = TRUE]
    /\ pc' = [pc EXCEPT ![p] = "derive"]
    /\ UNCHANGED <<resource, budget, calls, fileOpen, off, defers, memStats,
                   err, opened, closed, diag, ret, prevRet>>

\* the derived keys
Derive(p) ==
    /\ pc[p] = "derive"
    /\ memStats' = [memStats EXCEPT ![p].kv = DeriveKeys(@)]
    /\ pc' = [pc EXCEPT ![p] = "return"]
    /\ UNCHANGED <<resource, budget, calls, fileOpen, off, defers, scanErr,
                   err, opened, closed, diag, ret, prevRet>>

\* return memStats, nil: the deferred calls run, then the caller has the result
Return(p) ==
    /\ pc[p] = "return"
    /\ ret' = [ret EXCEPT ![p] = [memStats |-> memStats[p], err |-> "nil"]]
    /\ IF Len(defers[p]) > 0
       THEN /\ fileOpen' = [fileOpen EXCEPT ![p] = FALSE]
            /\ closed' = [closed EXCEPT ![p] = @ + Len(defers[p])]
       ELSE UNCHANGED <<fileOpen, closed>>
    /\ defers' = [defers EXCEPT ![p] = <<>>]
    /\ pc' = [pc EXCEPT ![p] = "idle"]
    /\ UNCHANGED <<resource, budget, calls, off, memStats, scanErr, err,
                   opened, diag, prevRet>>

Next ==
    \E p \in Procs :
        \/ OpenFail(p)
        \/ OpenOk(p)
        \/ ScanLine(p)
        \/ ScanEnd(p)
        \/ ScanError(p)
        \/ Derive(p)
        \/ Return(p)

Spec == Init /\ [][Next]_vars

SeqSpec == InitSeq /\ [][Next]_vars

ConcSpec == InitConc /\ [][Next]_vars

\* ------------------------------------------------------------------ claims
\* the fifteen field names read from the resource and the three derived keys
RecognizedFields ==
    {  <<"M","e","m","T","o","t","a","l">>, <<"M","e","m","F","r","e","e">>,
       <<"S","w","a","p","T","o","t","a","l">>, <<"S","w","a","p","F","r","e","e">>,
       <<"B","u","f","f","e","r","s">>, <<"C","a","c","h","e","d">>,
       <<"S","w","a","p","C","a","c","h","e","d">>, <<"A","c","t","i","v","e">>,
       <<"I","n","a","c","t","i","v","e">>, <<"D","i","r","t","y">>,
       <<"W","r","i","t","e","b","a","c","k">>, <<"M","a","p","p","e","d">>,
       <<"S","l","a","b">>, <<"C","o","m","m","i","t","L","i","m","i","t">>,
       <<"C","o","m","m","i","t","t","e","d","_","A","S">>  }

DerivedKeys ==
    {  <<"M","e","m","U","s","e","d">>, <<"S","w","a","p","U","s","e","d">>,
       <<"R","e","a","l","F","r","e","e">>  }

\* p's call has returned
Returned(p) == pc[p] = "idle" /\ calls[p] > 0

\* p's call has returned a nil error
Succeeded(p) == Returned(p) /\ ret[p].err = "nil"

\* the ids of the lines of the resource
LineIds == {resource[i] : i \in 1..Len(resource)}

\* the line starts with field name n and a colon
NamesField(n, line) == IsPrefix(n \o <<":">>, line)

\* the digits that follow the field name, the colon and the white space
NumericPortion(n, line) ==
    LET j == SkipWhile(line, Len(n) + 2, Space)
    IN  SubSeq(line, j, SkipWhile(line, j, Digit) - 1)

\* the line is a line of field n with a number that fits 64 bits
ValidFor(n, line) ==
    /\ NamesField(n, line)
    /\ NumericPortion(n, line) # <<>>
    /\ ParseUint(NumericPortion(n, line)).err = "nil"

\* the line is a line of a recognized field without such a number
BadNumber(line) ==
    \E n \in RecognizedFields : NamesField(n, line) /\ ~ValidFor(n, line)

\* p's scanner delivers the next line in this step
Delivers(p) == pc[p] = "scan" /\ off'[p] = off[p] + 1 /\ off[p] < Len(resource)

NextLine(p) == LineText(resource[off[p] + 1])

\* C1: a failed open returns at once a non-nil error and the nil map: no line is
\* read, no key is stored or derived, and no file is left open.
C1_OpenFailure ==
    \A p \in Procs :
        err[p] = "open" =>
            /\ pc[p] = "idle"
            /\ ret[p] = [memStats |-> NilMap, err |-> "open"]
            /\ memStats[p] = NilMap
            /\ off[p] = 0
            /\ ~fileOpen[p]
            /\ defers[p] = <<>>
            /\ opened[p] = closed[p]

C1_Witness ==
    \E p \in Procs : Returned(p) /\ err[p] = "open" /\ Len(resource) = MaxLines

\* C2: every successful return holds the three derived keys, whatever the
\* resource holds.
C2_DerivedKeysPresent ==
    \A p \in Procs :
        Succeeded(p) =>
            /\ ~ret[p].memStats.isNil
            /\ DerivedKeys \subseteq DOMAIN ret[p].memStats.kv

C2_Witness ==
    \E p \in Procs :
        Succeeded(p) /\ resource = <<>> /\ DOMAIN ret[p].memStats.kv = DerivedKeys

\* C3: in every successful return MemUsed + MemFree = MemTotal,
\* SwapUsed + SwapFree = SwapTotal and RealFree - Cached - Buffers = MemFree in
\* uint64 arithmetic, an absent input counting as 0.
C3_DerivedValues ==
    \A p \in Procs :
        Succeeded(p) =>
            LET kv == ret[p].memStats.kv
            IN  /\ DerivedKeys \subseteq DOMAIN kv
                /\ Add(kv[MemUsed], Get(kv, MemFree)) = Get(kv, MemTotal)
                /\ Add(kv[SwapUsed], Get(kv, SwapFree)) = Get(kv, SwapTotal)
                /\ Sub(Sub(kv[RealFree], Get(kv, Cached)), Get(kv, Buffers))
                       = Get(kv, MemFree)

\* MemFree 200 without MemTotal, Cached 2^64 - 1: MemUsed is 2^64 - 200 and
\* RealFree is 199
C3_Witness ==
    \E p \in Procs :
        /\ Succeeded(p)
        /\ LET kv == ret[p].memStats.kv
           IN  /\ MemTotal \notin DOMAIN kv
               /\ Get(kv, MemFree) = U64(200)
               /\ Get(kv, Cached) = MaxUint64
               /\ kv[MemUsed] = <<65336, 65535, 65535, 65535>>
               /\ kv[RealFree] = U64(199)

\* the keys of the map of a call and of its result are recognized or derived
C4_KeysInVocabulary ==
    \A p \in Procs :
        /\ DOMAIN memStats[p].kv \subseteq RecognizedFields \cup DerivedKeys
        /\ DOMAIN ret[p].memStats.kv \subseteq RecognizedFields \cup DerivedKeys

\* a line that does not start with a recognized name and a colon changes nothing
C4_UnrecognizedLineStep ==
    \A p \in Procs :
        (Delivers(p) /\ \A n \in RecognizedFields : ~NamesField(n, NextLine(p)))
            => memStats'[p] = memStats[p]

\* C4: the keys of the map are always among the fifteen recognized field names
\* and the three derived keys, and a line that does not start with a
\* recognized name and a colon changes nothing in the map.
C4_ClosedVocabulary == []C4_KeysInVocabulary /\ [][C4_UnrecognizedLineStep]_vars

\* Active(anon) and VmallocTotal lines were read and the call succeeded
C4_Witness ==
    \E p \in Procs :
        Succeeded(p) /\ off[p] = Len(resource) /\ {11, 12} \subseteq LineIds

\* a line of a recognized field without a valid number changes no key and the
\* scan goes on
C5_BadNumberStep ==
    \A p \in Procs :
        (Delivers(p) /\ BadNumber(NextLine(p)))
            => memStats'[p] = memStats[p] /\ pc'[p] = "scan"

\* a call whose open succeeded returns a nil error, and a recognized field is a
\* key of its result only if a line it has read has a valid number for it
C5_OnlyValidLinesSet ==
    \A p \in Procs :
        /\ (Returned(p) /\ err[p] = "nil") => ret[p].err = "nil"
        /\ Succeeded(p) =>
               \A n \in RecognizedFields \cap DOMAIN ret[p].memStats.kv :
                   \E i \in 1..off[p] : ValidFor(n, LineText(resource[i]))

\* C5: a line of a recognized field whose number cannot be parsed changes no
\* key and the scan goes on; the call succeeds, and a recognized field is a key
\* of the result only if a line read by the call has a valid number for it.
C5_BadNumberSkipped == []C5_OnlyValidLinesSet /\ [][C5_BadNumberStep]_vars

\* the out-of-range and the non-numeric MemTotal lines were read, the call
\* succeeded and MemTotal is no key
C5_Witness ==
    \E p \in Procs :
        /\ Succeeded(p) /\ off[p] = Len(resource)
        /\ {6, 7} \subseteq LineIds
        /\ MemTotal \notin DOMAIN ret[p].memStats.kv

\* C6: a call returns success only if its scan has reached the end of the
\* resource, every line having been read.
C6_SuccessOnlyAtEnd ==
    \A p \in Procs : Succeeded(p) => (off[p] = Len(resource) /\ ~scanErr[p])

\* C7: every file a call opens is closed, once, before the call returns; a
\* caller that is not in a call holds no open file.
C7_ClosedOnReturn ==
    /\ \A p \in Procs :
           /\ closed[p] <= opened[p]
           /\ fileOpen[p] <=> opened[p] = closed[p] + 1
           /\ pc[p] = "idle" => (~fileOpen[p] /\ closed[p] = opened[p])
    /\ (\A p \in Procs : pc[p] = "idle")
           => Cardinality({p \in Procs : fileOpen[p]}) = 0

\* every call of the caller has opened the file and returned, one of them
\* after a line that failed to parse
C7_Witness ==
    \E p \in Procs :
        /\ pc[p] = "idle" /\ calls[p] = MaxCalls
        /\ opened[p] = MaxCalls /\ closed[p] = MaxCalls /\ diag > 0

\* C8: two successive successful calls on the unchanged resource return the
\* same map.
C8_SuccessiveCallsAgree ==
    \A p \in Procs :
        (Succeeded(p) /\ prevRet[p].err = "nil")
            => ret[p].memStats = prevRet[p].memStats

\* the map of a call run alone that has read the first k lines of r
RECURSIVE Alone(_, _)
Alone(r, k) == IF k = 0 THEN <<>> ELSE LoopBody(Alone(r, k - 1), LineText(r[k]))

\* C9: whatever the interleaving, the map of a call is the map the call has
\* when it runs alone and has read as many lines, and so is what it returns.
C9_NoInterference ==
    \A p \in Procs :
        /\ off[p] <= Len(resource)
        /\ pc[p] \in {"scan", "derive"} => memStats[p].kv = Alone(resource, off[p])
        /\ pc[p] = "return" => memStats[p].kv = DeriveKeys(Alone(resource, off[p]))
        /\ Succeeded(p) =>
               ret[p].memStats = [isNil |-> FALSE,
                                  kv |-> DeriveKeys(Alone(resource, off[p]))]

\* one call has returned the whole resource while another is in its scan
C9_Witness ==
    \E p, q \in Procs :
        /\ p # q
        /\ Succeeded(p) /\ off[p] = Len(resource)
        /\ MemTotal \in DOMAIN ret[p].memStats.kv
        /\ pc[q] = "scan" /\ 0 < off[q] /\ off[q] < Len(resource)

\* C10: when the resource is read to its end, a recognized field is a key of
\* the result exactly when some line has a valid number for it, and its value
\* is the number of the last such line.
C10_LastValidLineWins ==
    \A p \in Procs :
        (Succeeded(p) /\ off[p] = Len(resource) /\ ~scanErr[p]) =>
            \A n \in RecognizedFields :
                LET kv == ret[p].memStats.kv
                    valid == {i \in 1..Len(resource) : ValidFor(n, LineText(resource[i]))}
                    last == CHOOSE i \in valid : \A j \in valid : j <= i
                IN  /\ n \in DOMAIN kv <=> valid # {}
                    /\ valid # {} =>
                           kv[n] = ParseUint(NumericPortion(n, LineText(resource[last]))).val

\* MemTotal: 1000, then MemTotal:5, then the out-of-range MemTotal: the value
\* is 5, and MemFree, which MemUsed reads, is no key
C10_Witness ==
    \E p \in Procs :
        /\ Succeeded(p) /\ off[p] = Len(resource) /\ ~scanErr[p]
        /\ resource = <<1, 2, 6>>
        /\ ret[p].memStats.kv[MemTotal] = U64(5)
        /\ MemFree \notin DOMAIN ret[p].memStats.kv
        /\ ret[p].memStats.kv[MemUsed] = U64(5)

====
